---- MODULE Spec2Model ----
(***************************************************************************)
(* Model of the Obsidian indexer (db_filling.py) and of the Telegram front *)
(* end that drives it (aio_query.py).                                      *)
(*                                                                         *)
(* One step of a task is one round trip the coroutine awaits (a store      *)
(* statement, the embedding request, connect, close) followed by the       *)
(* synchronous code that runs until the next await.  Tasks of the same     *)
(* event loop interleave only at awaits, so these steps are atomic.        *)
(***************************************************************************)
EXTENDS Integers, Sequences, FiniteSets, TLC

\* ------------------------------------------------------------------ bounds
MaxEdits == 1       \* how many times the user changes the document tree
MaxPasses == 2      \* how many /reindex commands the front end receives

\* --------------------------------------------------------------- constants
OBSIDIAN_DIR == <<"second_brain">>
Names == <<"a.md", "b.md">>          \* the notes a tree may hold, in rglob order
Tasks == {0, 1, 2}                   \* 0 = main()/on_startup, 1 and 2 = cmd_reindex handlers
Absent == "absent"                   \* the file does not exist
NoRow == [id |-> 0]                  \* fetchrow() returned None
NoHash == <<"sha256">>               \* file_hash is not bound

\* File contents: what the header splitter yields for the file, one string of
\* characters per section.  "empty" is a 0-byte file, "blank" holds only
\* white space.
Contents == {"empty", "blank", "three", "gap"}
Sections(c) ==
    CASE c = "empty" -> << >>
      [] c = "blank" -> << <<" ">> >>
      [] c = "three" -> << <<"h">>, <<" ", "w">>, <<"b", " ">> >>
      [] c = "gap" -> << <<"g">>, <<" ">>, <<"n">> >>

\* Files that cannot be read: the bytes of one are not UTF-8, so open(.., 'r')
\* raises UnicodeDecodeError at read(); the other cannot be opened at all
\* (OSError, for one a permission that is missing).
Undecodable == "undecodable"
Unreadable == "unreadable"
CannotOpen(c) == c \in {Absent, Unreadable}

VARIABLES
    tree,               \* [name -> content or Absent]: the document tree on disk
    source_documents,   \* table: set of [id, file_path, file_hash, last_indexed_at]
    document_chunks,    \* table: set of [id, source_id, chunk_text, embedding, metadata]
    source_documents_id_seq,
    document_chunks_id_seq,
    clock,              \* CURRENT_TIMESTAMP
    pc,                 \* [task -> the await the task is suspended at]
    markdown_files,     \* [task -> the list get_markdown_files() returned]
    file_idx,           \* [task -> position of the for loop of index_all_files]
    file_hash,          \* [task -> local of index_file]
    chunks,             \* [task -> local of index_file: process_markdown_file's result]
    existing,           \* [task -> local of update_source_document]
    source_id,          \* [task -> argument of insert_chunks]
    chunk_idx,          \* [task -> position of the for loop of insert_chunks]
    vec_str,            \* [task -> local of insert_chunks: the vector as sent to the store]
    embedded,           \* [task -> positions of chunks whose embedding succeeded]
    last,               \* [task -> path and terminal state of the document last finished]
    raised,             \* [task -> index_all_files raised to its caller]
    edits,              \* number of changes made to the tree
    store_failed,       \* [task -> a store statement of the running pass raised]
    passes,             \* number of /reindex commands received
    raw_pc,             \* the await raw_start() is suspended at
    cleared,            \* raw_start() has been run
    connections,        \* number of store connections that are open
    search_pc,          \* the await search_similar() is suspended at
    query,              \* argument of search_similar
    limit,              \* argument of search_similar
    query_vec_str,      \* local of search_similar: the query vector as sent to the store
    results,            \* what conn.fetch() returned to search_similar
    clean,              \* tasks whose running pass began after the last change of the tree
    quiet               \* 1 when a pass has completed since the tree or raw_start last changed anything

store == <<source_documents, document_chunks, source_documents_id_seq, document_chunks_id_seq>>
locals == <<markdown_files, file_idx, file_hash, chunks, existing, source_id, chunk_idx, vec_str, embedded, last>>
ghost == <<clean, quiet>>
indexing == <<tree, store, clock, pc, locals, raised, store_failed, edits, passes, raw_pc, cleared, ghost>>
search == <<search_pc, query, limit, query_vec_str, results>>
vars == <<indexing, connections, search>>

\* ------------------------------------------------------------ pure helpers
Range(s) == {s[i] : i \in 1..Len(s)}

RECURSIVE lstrip(_)
lstrip(s) == IF s # << >> /\ Head(s) = " " THEN lstrip(Tail(s)) ELSE s

RECURSIVE rstrip(_)
rstrip(s) == IF s # << >> /\ s[Len(s)] = " " THEN rstrip(SubSeq(s, 1, Len(s) - 1)) ELSE s

strip(s) == rstrip(lstrip(s))

RECURSIVE Flatten(_)
Flatten(ss) == IF ss = << >> THEN << >> ELSE Head(ss) \o Flatten(Tail(ss))

\* Path.relative_to(self.obsidian_dir)
relative_to(path, dir) == SubSeq(path, Len(dir) + 1, Len(path))

\* hashlib.sha256 over the bytes of the file
calculate_file_hash(c) == <<"sha256", c>>

\* self.obsidian_dir.rglob("*.md")
get_markdown_files(t) ==
    LET present(n) == t[n] # Absent
        abs(n) == OBSIDIAN_DIR \o <<n>>
        names == SelectSeq(Names, present)
    IN  [i \in 1..Len(names) |-> abs(names[i])]

NameOf(path) == path[Len(path)]

\* process_markdown_file, given the content read from the file
RECURSIVE ProcessSections(_, _, _)
ProcessSections(secs, i, path) ==
    IF i > Len(secs) THEN << >>
    ELSE LET chunk_text == strip(secs[i])
             rest == ProcessSections(secs, i + 1, path)
         IN  IF chunk_text = << >> THEN rest
             ELSE << [text |-> chunk_text,
                      metadata |-> [file_name |-> NameOf(path),
                                    chunk_index |-> i - 1,
                                    file_path |-> relative_to(path, OBSIDIAN_DIR)]] >> \o rest

\* Faulty variant of process_markdown_file: a file that is not UTF-8 is
\* decoded with replacement characters instead of being given up.
process_markdown_file_replaced(c, path) ==
    IF c = Undecodable
    THEN << [text |-> <<"?">>,
             metadata |-> [file_name |-> NameOf(path), chunk_index |-> 0,
                           file_path |-> relative_to(path, OBSIDIAN_DIR)]] >>
    ELSE IF strip(Flatten(Sections(c))) = << >> THEN << >>
    ELSE ProcessSections(Sections(c), 1, path)

\* Faulty variant of process_markdown_file: white space is not stripped, so
\* blank sections become chunks.
process_markdown_file_unstripped(c, path) ==
    [i \in 1..Len(Sections(c)) |->
        [text |-> Sections(c)[i],
         metadata |-> [file_name |-> NameOf(path), chunk_index |-> i - 1,
                       file_path |-> relative_to(path, OBSIDIAN_DIR)]]]

process_markdown_file(c, path) ==
    IF c = Undecodable THEN << >>
    ELSE IF strip(Flatten(Sections(c))) = << >> THEN << >>
    ELSE ProcessSections(Sections(c), 1, path)

\* SELECT ... FROM source_documents WHERE file_path = $1 (fetchrow)
FetchRow(docs, relative_path) ==
    IF \E d \in docs : d.file_path = relative_path
    THEN CHOOSE d \in docs : d.file_path = relative_path
    ELSE NoRow

\* Faulty variants of check_file_needs_update: one always asks for an update,
\* one compares the fingerprints the wrong way round.
check_file_needs_update_always(docs, path, hash) == TRUE

check_file_needs_update_same(docs, path, hash) ==
    LET result == FetchRow(docs, relative_to(path, OBSIDIAN_DIR))
    IN  IF result = NoRow THEN TRUE ELSE result.file_hash = hash

check_file_needs_update(docs, path, hash) ==
    LET result == FetchRow(docs, relative_to(path, OBSIDIAN_DIR))
    IN  IF result = NoRow THEN TRUE ELSE result.file_hash # hash

\* ----------------------------------------------------------------- vectors
\* A float is an integer count of 1/Fine; the text f"{x:.8f}" of a float is
\* an integer count of 1/Scale.  An array of floats is [nan, x]: nan says
\* that every element is NaN (0/0), x holds the elements otherwise.
Fine == 1000
Scale == 100
Dim == 2
NoVector == [nan |-> FALSE, x |-> << >>]

RECURSIVE ISqrtBetween(_, _, _)
ISqrtBetween(n, lo, hi) ==
    IF lo >= hi THEN lo
    ELSE LET mid == (lo + hi + 1) \div 2
         IN  IF mid * mid <= n THEN ISqrtBetween(n, mid, hi) ELSE ISqrtBetween(n, lo, mid - 1)

Dot(u, v) == LET S[i \in 0..Len(u)] == IF i = 0 THEN 0 ELSE S[i - 1] + u[i] * v[i] IN S[Len(u)]

\* np.linalg.norm of a list of whole numbers (of norm 5 at most), as a float
norm(v) == ISqrtBetween(Dot(v, v) * Fine * Fine, 0, 5 * Fine)

\* round half away from zero of a / b, b > 0
Round(a, b) == IF a >= 0 THEN (2 * a + b) \div (2 * b) ELSE 0 - ((2 * (0 - a) + b) \div (2 * b))

\* embedding /= np.linalg.norm(embedding): numpy divides by 0.0 with a
\* warning and yields NaN for 0/0.
Normalize(v) ==
    IF norm(v) = 0 THEN [nan |-> TRUE, x |-> [i \in 1..Len(v) |-> 0]]
    ELSE [nan |-> FALSE, x |-> [i \in 1..Len(v) |-> Round(v[i] * Fine * Fine, norm(v))]]

\* "[" + ",".join(f"{x:.8f}" for x in embedding) + "]"
Format(e) == [nan |-> e.nan, x |-> [i \in 1..Len(e.x) |-> Round(e.x[i] * Scale, Fine)]]

\* The vector the embedding model gives for a text.
embedding_of(text) ==
    CASE Head(text) = "h" -> <<3, 4>>
      [] Head(text) = "w" -> <<1, 1>>
      [] Head(text) = "b" -> <<0, 2>>
      [] Head(text) = "g" -> <<4, 3>>
      [] Head(text) = "n" -> <<2, 0>>
      [] OTHER -> <<-1, 2>>

ChunksOf(id) == {c \in document_chunks : c.source_id = id}

\* The for loop of index_all_files from position i on: calculate_file_hash of
\* a file that is gone or cannot be opened raises, index_file logs it and the
\* loop goes on.  The loop ends at conn.close().
RECURSIVE Scan(_, _, _)
Scan(files, i, t) ==
    IF i > Len(files) THEN [idx |-> i, hash |-> NoHash, pc |-> "close"]
    ELSE IF CannotOpen(t[NameOf(files[i])]) THEN Scan(files, i + 1, t)
    ELSE [idx |-> i, hash |-> calculate_file_hash(t[NameOf(files[i])]), pc |-> "check"]

CurPath(q) == markdown_files[q][file_idx[q]]
CurRel(q) == relative_to(CurPath(q), OBSIDIAN_DIR)

TypeOK ==
    /\ tree \in [Range(Names) -> Contents \cup {Undecodable, Unreadable, Absent}]
    /\ pc \in [Tasks -> {"init", "polling", "exit", "idle", "connect", "check", "select", "update",
                         "delete", "insert_doc", "embed", "insert_chunk", "close"}]
    /\ \A d \in source_documents : d.id >= 1
    /\ \A c \in document_chunks : c.id >= 1
    /\ quiet \in 0..1

\* The state in which main() starts, whatever the tree holds.
InitState ==
    /\ source_documents = {}
    /\ document_chunks = {}
    /\ source_documents_id_seq = 1
    /\ document_chunks_id_seq = 1
    /\ clock = 0
    /\ pc = [q \in Tasks |-> IF q = 0 THEN "init" ELSE "idle"]
    /\ markdown_files = [q \in Tasks |-> << >>]
    /\ file_idx = [q \in Tasks |-> 0]
    /\ file_hash = [q \in Tasks |-> NoHash]
    /\ chunks = [q \in Tasks |-> << >>]
    /\ existing = [q \in Tasks |-> NoRow]
    /\ source_id = [q \in Tasks |-> 0]
    /\ chunk_idx = [q \in Tasks |-> 0]
    /\ vec_str = [q \in Tasks |-> NoVector]
    /\ embedded = [q \in Tasks |-> {}]
    /\ last = [q \in Tasks |-> [path |-> << >>, state |-> "none"]]
    /\ raised = [q \in Tasks |-> FALSE]
    /\ store_failed = [q \in Tasks |-> FALSE]
    /\ edits = 0
    /\ passes = 0
    /\ raw_pc = "idle"
    /\ cleared = FALSE
    /\ clean = {}
    /\ quiet = 0
    /\ connections = 0
    /\ search_pc = "idle"
    /\ query = << >>
    /\ limit = 0
    /\ query_vec_str = NoVector
    /\ results = << >>

Init ==
    /\ tree \in [Range(Names) -> Contents \cup {Absent}]
    /\ InitState

\* ------------------------------------------------------- fragments of steps
\* The loop of index_all_files goes on with position i of the list.
Goto(q, files, i) ==
    LET n == Scan(files, i, tree)
    IN  /\ file_idx' = [file_idx EXCEPT ![q] = n.idx]
        /\ file_hash' = [file_hash EXCEPT ![q] = n.hash]
        /\ pc' = [pc EXCEPT ![q] = n.pc]

\* index_file returns (or its except clause has logged the error).
Finish(q, state) ==
    /\ last' = [last EXCEPT ![q] = [path |-> CurPath(q), state |-> state]]
    /\ Goto(q, markdown_files[q], file_idx[q] + 1)

\* index_file stays in the same document and awaits the next round trip.
Stay(q, p) ==
    /\ pc' = [pc EXCEPT ![q] = p]
    /\ UNCHANGED <<last, file_idx, file_hash>>

\* The for loop of insert_chunks goes on after the chunk at chunk_idx.
NextChunk(q) ==
    IF chunk_idx[q] < Len(chunks[q])
    THEN /\ chunk_idx' = [chunk_idx EXCEPT ![q] = chunk_idx[q] + 1]
         /\ Stay(q, "embed")
    ELSE /\ UNCHANGED chunk_idx
         /\ Finish(q, "indexed")

\* insert_chunks(conn, source_id, chunks) is entered with source_id = id.
BeginChunks(q, id) ==
    /\ source_id' = [source_id EXCEPT ![q] = id]
    /\ chunk_idx' = [chunk_idx EXCEPT ![q] = 1]
    /\ embedded' = [embedded EXCEPT ![q] = {}]
    /\ Stay(q, "embed")

Running(q) == pc[q] \notin {"init", "idle", "polling", "exit"}

\* ------------------------------------------------------ one indexing pass
\* initialize_indexer() at startup, or cmd_reindex: index_all_files() is
\* called and awaits asyncpg.connect().  main() awaits on_startup() before
\* dp.start_polling(), so handlers run only after the startup pass, and
\* the global indexer is bound by then.
Start(q) ==
    /\ raw_pc = "idle"
    /\ IF q = 0 THEN pc[q] = "init"
       ELSE pc[q] = "idle" /\ pc[0] = "polling" /\ passes < MaxPasses
    /\ pc' = [pc EXCEPT ![q] = "connect"]
    /\ passes' = IF q = 0 THEN passes ELSE passes + 1
    /\ clock' = clock + 1
    /\ raised' = [raised EXCEPT ![q] = FALSE]
    /\ store_failed' = [store_failed EXCEPT ![q] = FALSE]
    /\ clean' = clean \cup {q}
    /\ UNCHANGED <<tree, store, locals, edits, raw_pc, cleared, quiet, connections, search>>

\* connect() returned: the files are listed and the first one is hashed.
Connected(q) ==
    /\ pc[q] = "connect"
    /\ connections' = connections + 1
    /\ markdown_files' = [markdown_files EXCEPT ![q] = get_markdown_files(tree)]
    /\ Goto(q, get_markdown_files(tree), 1)
    /\ UNCHANGED <<tree, store, clock, chunks, existing, source_id, chunk_idx, vec_str, embedded, last,
                   raised, store_failed, edits, passes, raw_pc, cleared, ghost, search>>

\* index_file: the SELECT of check_file_needs_update returned; an unchanged
\* file is skipped, otherwise process_markdown_file reads and splits it and
\* update_source_document sends its SELECT.
Check(q) ==
    /\ pc[q] = "check"
    /\ LET path == CurPath(q)
           content == tree[NameOf(path)]
       IN  IF ~check_file_needs_update(source_documents, path, file_hash[q])
           THEN Finish(q, "unchanged") /\ UNCHANGED chunks
           ELSE IF CannotOpen(content)
           THEN Finish(q, "error") /\ UNCHANGED chunks
           ELSE IF process_markdown_file(content, path) = << >>
           THEN Finish(q, "empty") /\ UNCHANGED chunks
           ELSE /\ chunks' = [chunks EXCEPT ![q] = process_markdown_file(content, path)]
                /\ Stay(q, "select")
    /\ UNCHANGED <<tree, store, clock, markdown_files, existing, source_id, chunk_idx, vec_str, embedded,
                   raised, store_failed, edits, passes, raw_pc, cleared, ghost, connections, search>>

\* update_source_document: SELECT id ... returned, UPDATE or INSERT is sent.
Select(q) ==
    /\ pc[q] = "select"
    /\ LET row == FetchRow(source_documents, CurRel(q))
       IN  /\ existing' = [existing EXCEPT ![q] = [id |-> row.id]]
           /\ Stay(q, IF row # NoRow THEN "update" ELSE "insert_doc")
    /\ UNCHANGED <<tree, store, clock, markdown_files, chunks, source_id, chunk_idx, vec_str, embedded,
                   raised, store_failed, edits, passes, raw_pc, cleared, ghost, connections, search>>

\* Faulty variant of update_source_document: the record is replaced by a new
\* one (DELETE and INSERT) instead of being updated in place.
UpdateReplaced(q) ==
    /\ pc[q] = "update"
    /\ source_documents' =
           {d \in source_documents : d.file_path # CurRel(q)} \cup
           {[id |-> source_documents_id_seq, file_path |-> CurRel(q),
             file_hash |-> file_hash[q], last_indexed_at |-> clock]}
    /\ source_documents_id_seq' = source_documents_id_seq + 1
    /\ Stay(q, "delete")
    /\ UNCHANGED <<tree, document_chunks, document_chunks_id_seq, clock,
                   markdown_files, chunks, existing, source_id, chunk_idx, vec_str, embedded,
                   raised, store_failed, edits, passes, raw_pc, cleared, ghost, connections, search>>

\* UPDATE source_documents SET file_hash, last_indexed_at WHERE file_path
Update(q) ==
    /\ pc[q] = "update"
    /\ source_documents' =
           {IF d.file_path = CurRel(q)
            THEN [d EXCEPT !.file_hash = file_hash[q], !.last_indexed_at = clock]
            ELSE d : d \in source_documents}
    /\ Stay(q, "delete")
    /\ UNCHANGED <<tree, document_chunks, source_documents_id_seq, document_chunks_id_seq, clock,
                   markdown_files, chunks, existing, source_id, chunk_idx, vec_str, embedded,
                   raised, store_failed, edits, passes, raw_pc, cleared, ghost, connections, search>>

\* Faulty variant of Delete: the DELETE has no WHERE clause.
DeleteAll(q) ==
    /\ pc[q] = "delete"
    /\ document_chunks' = {}
    /\ BeginChunks(q, existing[q].id)
    /\ UNCHANGED <<tree, source_documents, source_documents_id_seq, document_chunks_id_seq, clock,
                   markdown_files, chunks, existing, vec_str,
                   raised, store_failed, edits, passes, raw_pc, cleared, ghost, connections, search>>

\* DELETE FROM document_chunks WHERE source_id = existing['id'], then
\* insert_chunks asks for the first embedding.
Delete(q) ==
    /\ pc[q] = "delete"
    /\ document_chunks' = document_chunks \ ChunksOf(existing[q].id)
    /\ BeginChunks(q, existing[q].id)
    /\ UNCHANGED <<tree, source_documents, source_documents_id_seq, document_chunks_id_seq, clock,
                   markdown_files, chunks, existing, vec_str,
                   raised, store_failed, edits, passes, raw_pc, cleared, ghost, connections, search>>

\* The constraints of source_documents: id is its key, file_path is UNIQUE.
DocumentConflict(docs, id, relative_path) ==
    \E d \in docs : d.id = id \/ d.file_path = relative_path

\* INSERT INTO source_documents (file_path, file_hash) ... RETURNING id; a
\* violated constraint raises into index_file's except clause.
InsertDoc(q) ==
    /\ pc[q] = "insert_doc"
    /\ source_documents_id_seq' = source_documents_id_seq + 1
    /\ IF DocumentConflict(source_documents, source_documents_id_seq, CurRel(q))
       THEN /\ Finish(q, "error")
            /\ UNCHANGED <<source_documents, source_id, chunk_idx, embedded>>
       ELSE /\ source_documents' = source_documents \cup
                    {[id |-> source_documents_id_seq, file_path |-> CurRel(q),
                      file_hash |-> file_hash[q], last_indexed_at |-> clock]}
            /\ BeginChunks(q, source_documents_id_seq)
    /\ UNCHANGED <<tree, document_chunks, document_chunks_id_seq, clock,
                   markdown_files, chunks, existing, vec_str,
                   raised, store_failed, edits, passes, raw_pc, cleared, ghost, connections, search>>

\* Faulty variant of insert_chunks: a failed embedding ends the loop instead
\* of continuing with the next chunk.
EmbedOrBreak(q, ok) ==
    /\ pc[q] = "embed"
    /\ IF ok
       THEN /\ embedded' = [embedded EXCEPT ![q] = embedded[q] \cup {chunk_idx[q]}]
            /\ vec_str' = [vec_str EXCEPT ![q] =
                               Format(Normalize(embedding_of(chunks[q][chunk_idx[q]].text)))]
            /\ Stay(q, "insert_chunk")
       ELSE /\ Finish(q, "indexed")
            /\ UNCHANGED <<embedded, vec_str>>
    /\ UNCHANGED <<tree, store, clock, markdown_files, chunks, existing, source_id, chunk_idx,
                   raised, store_failed, edits, passes, raw_pc, cleared, ghost, connections, search>>

\* get_embedding returned: either the vector, and the INSERT of the chunk is
\* sent, or an exception, which insert_chunks logs before it continues.
Embed(q, ok) ==
    /\ pc[q] = "embed"
    /\ IF ok
       THEN /\ embedded' = [embedded EXCEPT ![q] = embedded[q] \cup {chunk_idx[q]}]
            /\ vec_str' = [vec_str EXCEPT ![q] =
                               Format(Normalize(embedding_of(chunks[q][chunk_idx[q]].text)))]
            /\ Stay(q, "insert_chunk")
            /\ UNCHANGED chunk_idx
       ELSE /\ NextChunk(q)
            /\ UNCHANGED <<embedded, vec_str>>
    /\ UNCHANGED <<tree, store, clock, markdown_files, chunks, existing, source_id,
                   raised, store_failed, edits, passes, raw_pc, cleared, ghost, connections, search>>

\* get_embedding returned a vector of zeros: the division yields NaN
\* elements, and the INSERT of the chunk is sent with them.
EmbedDegenerate(q) ==
    /\ pc[q] = "embed"
    /\ vec_str' = [vec_str EXCEPT ![q] = Format(Normalize([i \in 1..Dim |-> 0]))]
    /\ Stay(q, "insert_chunk")
    /\ UNCHANGED <<tree, store, clock, markdown_files, chunks, existing, source_id, chunk_idx, embedded,
                   raised, store_failed, edits, passes, raw_pc, cleared, ghost, connections, search>>

\* The constraints of document_chunks: id is its key, source_id REFERENCES
\* source_documents.
ChunkConflict(docs, rows, id, sid) ==
    \/ \E c \in rows : c.id = id
    \/ ~\E d \in docs : d.id = sid

\* The type of the column embedding, VECTOR(d): the text of a vector with a
\* NaN element or of another dimension is not accepted.
VectorInvalid(vec) == vec.nan \/ Len(vec.x) # Dim

\* INSERT INTO document_chunks (source_id, chunk_text, embedding, metadata);
\* a violated constraint is logged by insert_chunks like any exception.
InsertChunk(q) ==
    /\ pc[q] = "insert_chunk"
    /\ document_chunks_id_seq' = document_chunks_id_seq + 1
    /\ document_chunks' =
           IF \/ ChunkConflict(source_documents, document_chunks, document_chunks_id_seq, source_id[q])
              \/ VectorInvalid(vec_str[q])
           THEN document_chunks
           ELSE document_chunks \cup
                    {[id |-> document_chunks_id_seq, source_id |-> source_id[q],
                      chunk_text |-> chunks[q][chunk_idx[q]].text,
                      embedding |-> vec_str[q],
                      metadata |-> chunks[q][chunk_idx[q]].metadata]}
    /\ vec_str' = [vec_str EXCEPT ![q] = NoVector]
    /\ NextChunk(q)
    /\ UNCHANGED <<tree, source_documents, source_documents_id_seq, clock,
                   markdown_files, chunks, existing, source_id, embedded,
                   raised, store_failed, edits, passes, raw_pc, cleared, ghost, connections, search>>

\* Faulty variant of Close: before it returns, the pass removes the documents
\* (and their chunks) whose file is no longer in the tree.
ClosePruning(q) ==
    /\ pc[q] = "close"
    /\ pc' = [pc EXCEPT ![q] = IF q = 0 THEN "polling" ELSE "idle"]
    /\ connections' = connections - 1
    /\ source_documents' = {d \in source_documents : tree[d.file_path[1]] # Absent}
    /\ document_chunks' = {c \in document_chunks :
                              \E d \in source_documents : d.id = c.source_id /\ tree[d.file_path[1]] # Absent}
    /\ markdown_files' = [markdown_files EXCEPT ![q] = << >>]
    /\ file_idx' = [file_idx EXCEPT ![q] = 0]
    /\ chunks' = [chunks EXCEPT ![q] = << >>]
    /\ existing' = [existing EXCEPT ![q] = NoRow]
    /\ source_id' = [source_id EXCEPT ![q] = 0]
    /\ chunk_idx' = [chunk_idx EXCEPT ![q] = 0]
    /\ embedded' = [embedded EXCEPT ![q] = {}]
    /\ last' = [last EXCEPT ![q] = [path |-> << >>, state |-> "none"]]
    /\ clean' = clean \ {q}
    /\ quiet' = IF q \in clean THEN 1 ELSE quiet
    /\ UNCHANGED <<tree, source_documents_id_seq, document_chunks_id_seq, clock, file_hash, vec_str,
                   raised, store_failed, edits, passes, raw_pc, cleared, search>>

\* finally: conn.close() returned; index_all_files returns to its caller and
\* its locals are gone.
Close(q) ==
    /\ pc[q] = "close"
    /\ pc' = [pc EXCEPT ![q] = IF q = 0 THEN "polling" ELSE "idle"]
    /\ connections' = connections - 1
    /\ markdown_files' = [markdown_files EXCEPT ![q] = << >>]
    /\ file_idx' = [file_idx EXCEPT ![q] = 0]
    /\ chunks' = [chunks EXCEPT ![q] = << >>]
    /\ existing' = [existing EXCEPT ![q] = NoRow]
    /\ source_id' = [source_id EXCEPT ![q] = 0]
    /\ chunk_idx' = [chunk_idx EXCEPT ![q] = 0]
    /\ embedded' = [embedded EXCEPT ![q] = {}]
    /\ last' = [last EXCEPT ![q] = [path |-> << >>, state |-> "none"]]
    /\ clean' = clean \ {q}
    /\ quiet' = IF q \in clean THEN 1 ELSE quiet
    /\ UNCHANGED <<tree, store, clock, file_hash, vec_str, raised, store_failed, edits, passes, raw_pc, cleared, search>>

\* ------------------------------------------------------------- environment
\* The user writes, creates or removes a note.  A pass sees the tree when it
\* lists the files, hashes a file and reads a file; a change made at any
\* other await commutes with the steps of the pass up to its next read, so
\* the change is taken at the first await after a read.  The tree before the
\* startup pass is the one Init chooses.
Edit(n, c) ==
    /\ edits < MaxEdits
    /\ pc[0] # "init"
    /\ \A q \in Tasks : pc[q] \in {"init", "idle", "polling", "exit", "check", "select"}
    /\ tree[n] # c
    /\ tree' = [tree EXCEPT ![n] = c]
    /\ edits' = edits + 1
    /\ clean' = {}
    /\ quiet' = 0
    /\ UNCHANGED <<store, clock, pc, locals, raised, store_failed, passes, raw_pc, cleared, connections, search>>

\* ------------------------------------------------------------- raw_start()
\* raw_start is called by db_filling.main() only, when no pass is running;
\* clearing the store before anything was indexed changes nothing.
RawStart ==
    /\ raw_pc = "idle"
    /\ pc[0] # "init"
    /\ ~cleared
    /\ \A q \in Tasks : ~Running(q)
    /\ raw_pc' = "connect"
    /\ cleared' = TRUE
    /\ UNCHANGED <<tree, store, clock, pc, locals, raised, store_failed, edits, passes, ghost, connections, search>>

RawConnected ==
    /\ raw_pc = "connect"
    /\ raw_pc' = "delete_chunks"
    /\ connections' = connections + 1
    /\ UNCHANGED <<tree, store, clock, pc, locals, raised, store_failed, edits, passes, cleared, ghost, search>>

\* Faulty variant of RawDeleteChunks: the documents are deleted first, in a
\* store that does not check references.
RawDeleteDocumentsFirst ==
    /\ raw_pc = "delete_chunks"
    /\ source_documents' = {}
    /\ raw_pc' = "delete_documents"
    /\ quiet' = 0
    /\ UNCHANGED <<tree, document_chunks, source_documents_id_seq, document_chunks_id_seq,
                   clock, pc, locals, raised, store_failed, edits, passes, cleared, clean,
                   connections, search>>

\* DELETE FROM document_chunks
RawDeleteChunks ==
    /\ raw_pc = "delete_chunks"
    /\ document_chunks' = {}
    /\ raw_pc' = "delete_documents"
    /\ quiet' = 0
    /\ UNCHANGED <<tree, source_documents, source_documents_id_seq, document_chunks_id_seq,
                   clock, pc, locals, raised, store_failed, edits, passes, cleared, clean, connections, search>>

\* DELETE FROM source_documents; the statement raises when a chunk still
\* references a document.
RawDeleteDocuments ==
    /\ raw_pc = "delete_documents"
    /\ IF \E c \in document_chunks : \E d \in source_documents : c.source_id = d.id
       THEN raw_pc' = "failed" /\ UNCHANGED source_documents
       ELSE raw_pc' = "restart_documents" /\ source_documents' = {}
    /\ UNCHANGED <<tree, document_chunks, source_documents_id_seq, document_chunks_id_seq,
                   clock, pc, locals, raised, store_failed, edits, passes, cleared, ghost, connections, search>>

\* Faulty variant of RawRestartDocuments: the sequence is left where it is.
RawRestartDocumentsSkipped ==
    /\ raw_pc = "restart_documents"
    /\ raw_pc' = "restart_chunks"
    /\ UNCHANGED <<tree, store, clock, pc, locals, raised, store_failed, edits, passes, cleared, ghost,
                   connections, search>>

\* ALTER SEQUENCE source_documents_id_seq RESTART WITH 1
RawRestartDocuments ==
    /\ raw_pc = "restart_documents"
    /\ source_documents_id_seq' = 1
    /\ raw_pc' = "restart_chunks"
    /\ UNCHANGED <<tree, source_documents, document_chunks, document_chunks_id_seq,
                   clock, pc, locals, raised, store_failed, edits, passes, cleared, ghost, connections, search>>

\* ALTER SEQUENCE document_chunks_id_seq RESTART WITH 1
RawRestartChunks ==
    /\ raw_pc = "restart_chunks"
    /\ document_chunks_id_seq' = 1
    /\ raw_pc' = "close"
    /\ UNCHANGED <<tree, source_documents, document_chunks, source_documents_id_seq,
                   clock, pc, locals, raised, store_failed, edits, passes, cleared, ghost, connections, search>>

\* finally: conn.close() returned; raw_start returns, or the exception of
\* the failed statement goes on to the caller.
RawClose ==
    /\ raw_pc \in {"close", "failed"}
    /\ raw_pc' = "idle"
    /\ connections' = connections - 1
    /\ UNCHANGED <<tree, store, clock, pc, locals, raised, store_failed, edits, passes, cleared, ghost, search>>

RawRun ==
    \/ RawConnected
    \/ RawDeleteChunks
    \/ RawDeleteDocuments
    \/ RawRestartDocuments
    \/ RawRestartChunks
    \/ RawClose

RawStep ==
    \/ RawStart
    \/ RawRun

\* A statement of raw_start raises: the except clause logs and re-raises,
\* finally closes the connection.  When connect() raises there is nothing to
\* close.
RawError ==
    /\ raw_pc \in {"connect", "delete_chunks", "delete_documents", "restart_documents", "restart_chunks"}
    /\ raw_pc' = IF raw_pc = "connect" THEN "idle" ELSE "failed"
    /\ UNCHANGED <<tree, store, clock, pc, locals, raised, store_failed, edits, passes, cleared, ghost,
                   connections, search>>

\* --------------------------------------------------------- search_similar()
Queries == {<<"w">>, <<"q">>}
Limits == {3, 5, 10}     \* limit=3 in db_filling.main, the default 5, limit=10 in handle_search_query
BotLimit == 10           \* search_similar(query, limit=10) in handle_search_query

\* dc.embedding <-> $1: the Euclidean distance, kept squared (squaring keeps
\* the order and the ties of distances).
distance(u, v) == Dot([i \in 1..Len(u.x) |-> u.x[i] - v.x[i]], [i \in 1..Len(u.x) |-> u.x[i] - v.x[i]])

\* FROM document_chunks dc JOIN source_documents sd ON dc.source_id = sd.id
Join(docs, rows) == {[dc |-> c, sd |-> d] : c \in {c \in rows : \E d \in docs : c.source_id = d.id},
                                          d \in {d \in docs : \E c \in rows : c.source_id = d.id}}

Joined(docs, rows) == {j \in Join(docs, rows) : j.dc.source_id = j.sd.id}

\* ORDER BY dc.embedding <-> $1: every order the store may give, the rows of
\* the same distance in any order.
RECURSIVE OrderBy(_, _)
OrderBy(js, vec) ==
    IF js = {} THEN {<< >>}
    ELSE LET first == {j \in js : \A o \in js : distance(j.dc.embedding, vec) <= distance(o.dc.embedding, vec)}
         IN  UNION {{<<j>> \o rest : rest \in OrderBy(js \ {j}, vec)} : j \in first}

\* Faulty variant of Limit: the last rows are kept instead of the first.
LimitLast(rows, k) == SubSeq(rows, IF Len(rows) > k THEN Len(rows) - k + 1 ELSE 1, Len(rows))

\* LIMIT $2
Limit(rows, k) == SubSeq(rows, 1, IF Len(rows) > k THEN k ELSE Len(rows))

\* The list search_similar builds from the rows fetched.
Rows(js, vec) ==
    [i \in 1..Len(js) |-> [text |-> js[i].dc.chunk_text,
                           metadata |-> js[i].dc.metadata,
                           file_path |-> js[i].sd.file_path,
                           distance |-> distance(js[i].dc.embedding, vec)]]

\* A text message arrived: handle_search_query calls search_similar(query,
\* limit), which awaits asyncpg.connect().
SearchStart(text, k) ==
    /\ search_pc = "idle"
    /\ pc[0] = "polling"
    /\ search_pc' = "connect"
    /\ query' = text
    /\ limit' = k
    /\ UNCHANGED <<indexing, connections, query_vec_str, results>>

\* connect() returned; get_embedding(query) is awaited.
SearchConnected ==
    /\ search_pc = "connect"
    /\ search_pc' = "embed"
    /\ connections' = connections + 1
    /\ UNCHANGED <<indexing, query, limit, query_vec_str, results>>

\* get_embedding returned the vector of the query, or a vector of zeros: it
\* is divided by its norm and sent with the SELECT.
SearchEmbed(zero) ==
    /\ search_pc = "embed"
    /\ query_vec_str' = Format(Normalize(IF zero THEN [i \in 1..Dim |-> 0] ELSE embedding_of(query)))
    /\ search_pc' = "fetch"
    /\ UNCHANGED <<indexing, connections, query, limit, results>>

\* conn.fetch() returned the rows, or the store refused the vector.
SearchFetch ==
    /\ search_pc = "fetch"
    /\ IF VectorInvalid(query_vec_str)
       THEN search_pc' = "failed" /\ UNCHANGED results
       ELSE /\ search_pc' = "close"
            /\ \E js \in OrderBy(Joined(source_documents, document_chunks), query_vec_str) :
                   results' = Rows(Limit(js, limit), query_vec_str)
    /\ UNCHANGED <<indexing, connections, query, limit, query_vec_str>>

\* connect(), get_embedding() or fetch() raises: search_similar has no except
\* clause, finally closes the connection if there is one.
SearchError ==
    /\ search_pc \in {"connect", "embed", "fetch"}
    /\ search_pc' = IF search_pc = "connect" THEN "idle" ELSE "failed"
    /\ query' = IF search_pc = "connect" THEN << >> ELSE query
    /\ limit' = IF search_pc = "connect" THEN 0 ELSE limit
    /\ UNCHANGED <<indexing, connections, query_vec_str, results>>

\* finally: conn.close() returned; search_similar returns the list, or the
\* exception goes on to handle_search_query, which answers with it.
SearchClose ==
    /\ search_pc \in {"close", "failed"}
    /\ search_pc' = "idle"
    /\ connections' = connections - 1
    /\ query' = << >>
    /\ limit' = 0
    /\ query_vec_str' = NoVector
    /\ results' = << >>
    /\ UNCHANGED indexing

SearchStep ==
    \/ SearchConnected
    \/ \E zero \in BOOLEAN : SearchEmbed(zero)
    \/ SearchFetch
    \/ SearchClose

\* ---------------------------------------------------------- specifications
Step(q) ==
    \/ Connected(q)
    \/ Check(q)
    \/ Select(q)
    \/ Update(q)
    \/ Delete(q)
    \/ InsertDoc(q)
    \/ \E ok \in BOOLEAN : Embed(q, ok)
    \/ InsertChunk(q)
    \/ Close(q)

\* ------------------------------------------------------------ store errors
\* Faulty variant of StoreError: the exception leaves index_all_files
\* without passing through conn.close().
StoreErrorLeaking(q) ==
    /\ pc[q] \in {"check", "select", "update", "delete", "insert_doc", "insert_chunk"}
    /\ store_failed' = [store_failed EXCEPT ![q] = TRUE]
    /\ raised' = [raised EXCEPT ![q] = TRUE]
    /\ pc' = [pc EXCEPT ![q] = IF q = 0 THEN "polling" ELSE "idle"]
    /\ clean' = clean \ {q}
    /\ UNCHANGED <<tree, store, clock, locals, edits, passes, raw_pc, cleared, quiet, connections, search>>

\* A store statement of index_file raises (connection lost, timeout): the
\* except clause of index_file logs it and index_all_files goes on with the
\* next file; inside insert_chunks the except clause of the loop logs it and
\* the loop goes on with the next chunk.
StoreError(q) ==
    /\ pc[q] \in {"check", "select", "update", "delete", "insert_doc", "insert_chunk"}
    /\ store_failed' = [store_failed EXCEPT ![q] = TRUE]
    /\ IF pc[q] = "insert_chunk"
       THEN NextChunk(q)
       ELSE Finish(q, "error") /\ UNCHANGED chunk_idx
    /\ vec_str' = [vec_str EXCEPT ![q] = NoVector]
    /\ UNCHANGED <<tree, store, clock, markdown_files, chunks, existing, source_id, embedded,
                   raised, edits, passes, raw_pc, cleared, ghost, connections, search>>

\* asyncpg.connect() raises before the try block of index_all_files: the
\* exception reaches the caller.  main() logs it and ends without polling;
\* cmd_reindex answers with the error.
ConnectError(q) ==
    /\ pc[q] = "connect"
    /\ pc' = [pc EXCEPT ![q] = IF q = 0 THEN "exit" ELSE "idle"]
    /\ raised' = [raised EXCEPT ![q] = TRUE]
    /\ clean' = clean \ {q}
    /\ UNCHANGED <<tree, store, clock, locals, store_failed, edits, passes, raw_pc, cleared, quiet, connections, search>>

\* The front end with one /reindex at a time: a command is sent only after
\* the previous one was answered.
Next ==
    \/ \E q \in {0, 1} : (\A r \in Tasks : ~Running(r)) /\ Start(q)
    \/ \E q \in {0, 1} : Step(q)
    \/ \E n \in Range(Names) : \E c \in Contents \cup {Absent} : Edit(n, c)

Spec == Init /\ [][Next]_vars

\* The same with a store that may fail.
NextFail ==
    \/ Next
    \/ \E q \in {0, 1} : StoreError(q)
    \/ \E q \in {0, 1} : ConnectError(q)

SpecFail == Init /\ [][NextFail]_vars

\* The front end as aiogram runs it: start_polling() handles every update in
\* a task of its own, so a /reindex may arrive while another one is served
\* (task 2 is the one that serves it); and db_filling.main(), which clears the
\* store before it indexes.  Here the embedding service answers every
\* request, every note holds text (a note of white space is never written
\* to the store), and the tree changes between commands only and in its
\* first note only: the second note is there from the start or never.
TaskStep(q) ==
    \/ Connected(q)
    \/ Check(q)
    \/ Select(q)
    \/ Update(q)
    \/ Delete(q)
    \/ InsertDoc(q)
    \/ Embed(q, TRUE)
    \/ InsertChunk(q)
    \/ Close(q)

TextContents == {c \in Contents : process_markdown_file(c, OBSIDIAN_DIR \o <<"a.md">>) # << >>}

InitTasks ==
    /\ Init
    /\ tree[Names[1]] \in TextContents \cup {Absent}
    /\ tree[Names[2]] \in {Absent, "gap"}

NextTasks ==
    \/ \E q \in Tasks : (q = 2 => Running(1)) /\ Start(q)
    \/ \E q \in Tasks : TaskStep(q)
    \/ \E n \in {Names[1]} : \E c \in TextContents \cup {Absent} :
           (raw_pc = "idle" /\ \A q \in Tasks : ~Running(q)) /\ Edit(n, c)
    \/ RawStep

SpecTasks == InitTasks /\ [][NextTasks]_vars

\* The front end with one /reindex at a time over a tree in which files may
\* be unreadable.
ReadContents == {"three", Undecodable, Unreadable}

InitRead ==
    /\ tree \in [Range(Names) -> ReadContents \cup {Absent}]
    /\ InitState

NextRead ==
    \/ \E q \in {0, 1} : (\A r \in Tasks : ~Running(r)) /\ Start(q)
    \/ \E q \in {0, 1} : Step(q)
    \/ \E n \in Range(Names) : \E c \in ReadContents \cup {Absent} : Edit(n, c)

SpecRead == InitRead /\ [][NextRead]_vars

\* Indexing and searching, one operation at a time; the embedding service
\* may answer with a vector of zeros.
Quiescent == raw_pc = "idle" /\ search_pc = "idle" /\ \A q \in Tasks : ~Running(q)

InitSearch ==
    /\ tree \in {t \in [Range(Names) -> Contents \cup {Absent}] :
                    t[Names[1]] \in {"three", Absent} /\ t[Names[2]] \in {"gap", Absent}}
    /\ InitState

NextSearch ==
    \/ \E q \in {0, 1} : Quiescent /\ Start(q)
    \/ \E q \in {0, 1} : TaskStep(q)
    \/ \E q \in {0, 1} : EmbedDegenerate(q)
    \/ \E c \in {"three", "gap", Absent} : Quiescent /\ Edit(Names[1], c)
    \/ \E text \in Queries : \E k \in Limits : Quiescent /\ SearchStart(text, k)
    \/ SearchStep

SpecSearch == InitSearch /\ [][NextSearch]_vars

\* Indexing, clearing and searching a tree of one note, one operation at a
\* time, with an embedding service and a store that may fail at every request.
InitFaults ==
    /\ tree \in {t \in [Range(Names) -> Contents \cup {Absent}] :
                    t[Names[1]] \in {"gap", Absent} /\ t[Names[2]] = Absent}
    /\ InitState

NextFaults ==
    \/ \E q \in {0, 1} : Quiescent /\ Start(q)
    \/ \E q \in {0, 1} : Step(q)
    \/ \E q \in {0, 1} : EmbedDegenerate(q)
    \/ \E q \in {0, 1} : StoreError(q)
    \/ \E q \in {0, 1} : ConnectError(q)
    \/ \E c \in {"three", Absent} : Quiescent /\ Edit(Names[1], c)
    \/ Quiescent /\ RawStart
    \/ RawRun
    \/ RawError
    \/ \E text \in Queries : Quiescent /\ SearchStart(text, BotLimit)
    \/ SearchStep
    \/ SearchError

SpecFaults == InitFaults /\ [][NextFaults]_vars

\* ------------------------------------------------------------------ claims
RelOf(path) == <<NameOf(path)>>
DocsAt(rel) == {d \in source_documents : d.file_path = rel}
RowsOf(id) == {[text |-> c.chunk_text, metadata |-> c.metadata] : c \in ChunksOf(id)}
IsBlank(c) == \A i \in 1..Len(Sections(c)) : \A j \in 1..Len(Sections(c)[i]) : Sections(c)[i][j] = " "
\* Task q takes the step that ends the SELECT of check_file_needs_update.
CheckStepOf(q) == pc[q] = "check" /\ (pc'[q] # "check" \/ file_idx'[q] # file_idx[q])
\* ... and index_file returns because the file is up to date.
SkippedUnchanged(q) ==
    /\ file_idx'[q] > file_idx[q]
    /\ last'[q] = [path |-> CurPath(q), state |-> "unchanged"]
\* Task q has just left index_file for the document in last[q].
JustFinished(q) == pc[q] \in {"check", "close"} /\ last[q].state # "none"

\* C1: once a pass over the tree has completed (whatever embeddings failed
\* in it), a further pass over the unchanged tree writes nothing to
\* source_documents or document_chunks, so the chunks in the store stay the
\* ones the first pass left.
IdempotentPass ==
    [][(quiet >= 1 /\ clean # {}) => UNCHANGED <<source_documents, document_chunks>>]_vars

\* C1 witness: a second pass over an unchanged tree of two notes has gone
\* through all of them, with chunks in the store.
IdempotentPassReached ==
    \E q \in Tasks :
        /\ pc[q] = "close" /\ q \in clean /\ quiet >= 1
        /\ Len(markdown_files[q]) = 2
        /\ document_chunks # {}

\* C2: when a pass over the tree has completed, every recorded document whose
\* file is in the tree holds only chunks of the file's present content: no
\* chunk of an earlier content of the file is left, also when the new content
\* yields no chunks; and while new chunks of a document are written, no other
\* chunk is stored under it.
ReplaceOnChange ==
    \A q \in Tasks :
        /\ (pc[q] = "close" /\ q \in clean) =>
               \A i \in 1..Len(markdown_files[q]) :
                   LET path == markdown_files[q][i]
                   IN  \A d \in DocsAt(RelOf(path)) :
                           RowsOf(d.id) \subseteq Range(process_markdown_file(tree[NameOf(path)], path))
        /\ pc[q] \in {"embed", "insert_chunk"} => RowsOf(source_id[q]) \subseteq Range(chunks[q])

\* C3: a document that is skipped as unchanged has chunks in the store, that
\* is, a document recorded without chunks is indexed again by the next pass.
ReconciledNextPass ==
    \A q \in Tasks :
        (JustFinished(q) /\ last[q].state = "unchanged") =>
            \A d \in DocsAt(RelOf(last[q].path)) : ChunksOf(d.id) # {}

\* C4: while and after insert_chunks runs for a document, the chunks stored
\* under it are exactly the chunks whose embedding succeeded, one row each;
\* the loop reaches the last chunk whatever failed, and the pass ends only
\* when no file is left.
PartialSuccess ==
    \A q \in Tasks :
        LET done == IF pc[q] = "insert_chunk" THEN embedded[q] \ {chunk_idx[q]} ELSE embedded[q]
        IN  (pc[q] \in {"embed", "insert_chunk"} \/ (JustFinished(q) /\ last[q].state = "indexed")) =>
                /\ RowsOf(source_id[q]) = {chunks[q][i] : i \in done}
                /\ Cardinality(ChunksOf(source_id[q])) = Cardinality(done)
                /\ JustFinished(q) => chunk_idx[q] = Len(chunks[q])
                /\ pc[q] = "close" => file_idx[q] > Len(markdown_files[q])

\* C4 witness: a document of three chunks is indexed with one embedding
\* failed and two chunks stored, and the pass is at the next document.
PartialSuccessReached ==
    \E q \in Tasks :
        /\ pc[q] = "check" /\ last[q].state = "indexed"
        /\ Len(chunks[q]) = 3
        /\ Cardinality(embedded[q]) = 2
        /\ Cardinality(ChunksOf(source_id[q])) = 2

\* C5: after a store statement failed in a pass, the pass handles no further
\* document (nor chunk), and it ends by raising to its caller.
StoreErrorAborts ==
    \A q \in Tasks :
        store_failed[q] =>
            /\ pc[q] \notin {"check", "select", "update", "delete", "insert_doc", "embed", "insert_chunk"}
            /\ ~Running(q) => raised[q]

\* C6: no state has a document that carries the fingerprint just written by
\* update_source_document while chunks are still stored under it.
AtomicUpsert ==
    \A q \in Tasks : \A d \in source_documents :
        (pc[q] = "delete" /\ d.id = existing[q].id /\ d.file_hash = file_hash[q]) =>
            ChunksOf(d.id) = {}

\* C7: the store never holds two documents with the same relative path, and
\* no step changes the id of the document recorded for a path.
DocumentUnique ==
    /\ [](\A d \in source_documents : \A e \in source_documents :
              d.file_path = e.file_path => d = e)
    /\ [][\A d \in source_documents : \A e \in source_documents' :
              d.file_path = e.file_path => d.id = e.id]_vars

\* C7 witness: of two overlapping passes one found the path already
\* inserted by the other.
DocumentUniqueReached ==
    \E q \in Tasks : \E r \in Tasks :
        /\ q # r /\ Running(r)
        /\ JustFinished(q) /\ last[q].state = "error"
        /\ DocsAt(RelOf(last[q].path)) # {}

\* C8: at most one task is inside index_file, and at most one embedding
\* request is in flight.
StrictlySequential ==
    /\ Cardinality({q \in Tasks : pc[q] \in {"check", "select", "update", "delete",
                                             "insert_doc", "embed", "insert_chunk"}}) <= 1
    /\ Cardinality({q \in Tasks : pc[q] = "embed"}) <= 1

\* C9: check_file_needs_update answers false exactly when the store holds a
\* document for the relative path with the given fingerprint, and the step
\* leaves the store as it is.
NeedsReindex ==
    [][\A q \in Tasks :
          CheckStepOf(q) =>
              /\ SkippedUnchanged(q) <=>
                     ~(\/ DocsAt(RelOf(CurPath(q))) = {}
                       \/ \E d \in DocsAt(RelOf(CurPath(q))) : d.file_hash # file_hash[q])
              /\ UNCHANGED store]_vars

\* C9 witness: a recorded document is found with another fingerprint and
\* update_source_document has been entered.
NeedsReindexReached ==
    \E q \in Tasks :
        /\ pc[q] = "select"
        /\ \E d \in DocsAt(RelOf(CurPath(q))) : d.file_hash # file_hash[q]

\* C10: when index_file splits a file that holds nothing but white space, it
\* returns in the state "empty", and looking at such a file writes nothing to
\* the store.
EmptyDocument ==
    [][\A q \in Tasks :
          (CheckStepOf(q) /\ tree[NameOf(CurPath(q))] # Absent /\ IsBlank(tree[NameOf(CurPath(q))])) =>
              /\ UNCHANGED store
              /\ file_idx'[q] > file_idx[q]
              /\ ~SkippedUnchanged(q) => last'[q] = [path |-> CurPath(q), state |-> "empty"]]_vars

\* C10 witness: a 0-byte or white-space file has been left as "empty" and no
\* document is recorded for it.
EmptyDocumentReached ==
    \E q \in Tasks :
        /\ JustFinished(q) /\ last[q].state = "empty"
        /\ tree[NameOf(last[q].path)] \in {"empty", "blank"}
        /\ DocsAt(RelOf(last[q].path)) = {}

\* C11: a file that cannot be read (it is gone, cannot be opened, or is not
\* UTF-8) is left by index_file without a write to the store; while no pass
\* runs that began before the last change of the tree, the document and the
\* chunks recorded for the path of such a file stay as they are; and a pass
\* over an unchanged tree ends with every readable file of text recorded with
\* its present fingerprint.
UnreadableDocument ==
    /\ [][\A q \in Tasks :
            (CheckStepOf(q) /\ (tree[NameOf(CurPath(q))] = Undecodable \/ CannotOpen(tree[NameOf(CurPath(q))]))) =>
                /\ UNCHANGED store
                /\ file_idx'[q] > file_idx[q]]_vars
    /\ [][\A n \in Range(Names) :
            ((tree[n] = Undecodable \/ CannotOpen(tree[n])) /\ \A r \in Tasks : Running(r) => r \in clean) =>
                /\ DocsAt(<<n>>)' = DocsAt(<<n>>)
                /\ \A d \in DocsAt(<<n>>) : ChunksOf(d.id)' = ChunksOf(d.id)]_vars
    /\ [](\A q \in Tasks :
            (pc[q] = "close" /\ q \in clean) =>
                \A n \in Range(Names) :
                    (tree[n] # Undecodable /\ ~CannotOpen(tree[n])
                        /\ process_markdown_file(tree[n], OBSIDIAN_DIR \o <<n>>) # << >>) =>
                        \E d \in DocsAt(<<n>>) : d.file_hash = calculate_file_hash(tree[n]))

\* C11 witness: a pass over the unchanged tree has ended; the first note was
\* indexed earlier and can no longer be read, its document and chunks are
\* still stored, and the second note is indexed.
UnreadableDocumentReached ==
    \E q \in Tasks :
        /\ pc[q] = "close" /\ q \in clean
        /\ Len(markdown_files[q]) = 2
        /\ tree[Names[1]] \in {Undecodable, Unreadable}
        /\ \E d \in DocsAt(<<Names[1]>>) : ChunksOf(d.id) # {}
        /\ tree[Names[2]] = "three"
        /\ \E d \in DocsAt(<<Names[2]>>) : Cardinality(ChunksOf(d.id)) = 3

\* C12: the list search_similar gets from the store has at most limit
\* entries; every entry is a stored chunk with the path of the document that
\* owns it and its distance to the query vector; the entries are in
\* non-decreasing order of distance; for every distance in the list, exactly
\* the stored chunks that are strictly closer come before it, so no chunk left
\* out is strictly closer than one returned; and with no chunk in the store
\* the list is empty.
Ranking ==
    [][(search_pc = "fetch" /\ search_pc' = "close") =>
          LET owned == {p \in document_chunks \X source_documents : p[1].source_id = p[2].id}
              dist(p) == distance(p[1].embedding, query_vec_str)
              r == results'
          IN  /\ Len(r) <= limit
              /\ \A i \in 1..Len(r) :
                     \E p \in owned : r[i] = [text |-> p[1].chunk_text, metadata |-> p[1].metadata,
                                              file_path |-> p[2].file_path, distance |-> dist(p)]
              /\ \A i \in 1..Len(r) : \A j \in i..Len(r) : r[i].distance <= r[j].distance
              /\ \A i \in 1..Len(r) :
                     Cardinality({p \in owned : dist(p) < r[i].distance}) =
                         Cardinality({j \in 1..Len(r) : r[j].distance < r[i].distance})
              /\ document_chunks = {} => r = << >>]_vars

\* C12 witness: of five stored chunks the three nearest are returned for
\* limit 3: the chunk at distance 0 first, then two chunks of different
\* notes at the same distance.
RankingReached ==
    /\ search_pc = "close"
    /\ limit = 3
    /\ Cardinality(document_chunks) = 5
    /\ Len(results) = 3
    /\ results[1].distance = 0
    /\ results[2].distance = results[3].distance
    /\ results[2].file_path # results[3].file_path

\* C13: when raw_start returns, the store holds no chunk and no document and
\* both sequences are at 1; the documents are deleted only when no chunk is
\* left; and in the store so cleared a pass skips no file as unchanged and
\* the first document it records gets the id 1.
ClearAll ==
    /\ [][(raw_pc = "close" /\ raw_pc' = "idle") =>
            /\ source_documents' = {} /\ document_chunks' = {}
            /\ source_documents_id_seq' = 1 /\ document_chunks_id_seq' = 1]_vars
    /\ [][(source_documents # {} /\ source_documents' = {}) => document_chunks = {}]_vars
    /\ [][\A q \in Tasks :
            (cleared /\ raw_pc = "idle" /\ source_documents = {}) =>
                /\ CheckStepOf(q) => ~SkippedUnchanged(q)
                /\ \A d \in source_documents' : d.id = 1]_vars

\* C13 witness: the tree is the one the startup pass indexed, raw_start has
\* returned, and a later pass has recorded both notes again, one with id 1.
ClearAllReached ==
    /\ cleared /\ raw_pc = "idle" /\ edits = 0
    /\ Cardinality(source_documents) = 2
    /\ \E d \in source_documents : d.id = 1 /\ d.last_indexed_at >= 2

\* C14: every open store connection belongs to an operation that has
\* connected and has not yet returned; when no operation is running, no
\* connection is open.
ConnectionRelease ==
    /\ connections =
           Cardinality({q \in Tasks : Running(q) /\ pc[q] # "connect"})
               + (IF raw_pc \in {"idle", "connect"} THEN 0 ELSE 1)
               + (IF search_pc \in {"idle", "connect"} THEN 0 ELSE 1)
    /\ Quiescent => connections = 0

\* C14 witness: a pass in which a store statement raised has returned,
\* raw_start has been run, and no connection is open.
ConnectionReleaseReached ==
    /\ Quiescent /\ connections = 0
    /\ store_failed[1] /\ cleared

\* C15: every stored embedding has norm 1 (to the precision of the text sent
\* to the store); no INSERT of a chunk and no SELECT of a search is sent with
\* a vector that is not of norm 1, a vector of zeros being an error of the
\* embedding call.
UnitNorm ==
    LET unit(vec) == /\ ~vec.nan
                     /\ (Scale - 1) * (Scale - 1) <= Dot(vec.x, vec.x)
                     /\ Dot(vec.x, vec.x) <= (Scale + 1) * (Scale + 1)
    IN  /\ \A c \in document_chunks : unit(c.embedding)
        /\ \A q \in Tasks : pc[q] = "insert_chunk" => unit(vec_str[q])
        /\ search_pc = "fetch" => unit(query_vec_str)

\* C16: a step of index_file leaves every document of another path as it
\* is, and the chunks it deletes or inserts are under the id of the document
\* of the path it is processing.
ReindexFrame ==
    [][\A q \in Tasks :
          pc[q] \in {"check", "select", "update", "delete", "insert_doc", "embed", "insert_chunk"} =>
              /\ \A d \in (source_documents \ source_documents') \cup (source_documents' \ source_documents) :
                     d.file_path = CurRel(q)
              /\ \A c \in (document_chunks \ document_chunks') \cup (document_chunks' \ document_chunks) :
                     \E d \in source_documents \cup source_documents' :
                         d.file_path = CurRel(q) /\ d.id = c.source_id]_vars

\* C16 witness: a changed note has been indexed again under the id it had,
\* while the other note keeps the document and the chunks of an earlier pass.
ReindexFrameReached ==
    \E q \in Tasks :
        /\ JustFinished(q) /\ last[q].state = "indexed"
        /\ existing[q] # NoRow
        /\ ChunksOf(existing[q].id) # {}
        /\ \E d \in source_documents :
               /\ d.file_path # RelOf(last[q].path)
               /\ d.last_indexed_at < clock
               /\ ChunksOf(d.id) # {}

\* C17: every chunk in the store references a document that is in the store,
\* and no step removes a document under which chunks are stored.
ReferentialIntegrity ==
    /\ [](\A c \in document_chunks : \E d \in source_documents : d.id = c.source_id)
    /\ [][\A d \in source_documents :
            (\A e \in source_documents' : e.id # d.id) => ChunksOf(d.id) = {}]_vars

\* C17 witness: raw_start failed after it had deleted the chunks: the
\* documents are still there, without chunks.
ReferentialIntegrityReached ==
    /\ raw_pc = "failed"
    /\ source_documents # {}
    /\ document_chunks = {}

\* C18: no step of a pass removes a document or moves it to another path;
\* and while no pass runs that began before the last change of the tree, the
\* document and the chunks recorded for a file that is gone stay as they are.
NoRemovalByIndexing ==
    /\ [][\A d \in source_documents :
            \E e \in source_documents' : e.id = d.id /\ e.file_path = d.file_path]_vars
    /\ [][\A n \in Range(Names) :
            (tree[n] = Absent /\ \A r \in Tasks : Running(r) => r \in clean) =>
                /\ {d \in source_documents' : d.file_path = <<n>>} = DocsAt(<<n>>)
                /\ \A d \in DocsAt(<<n>>) : {c \in document_chunks' : c.source_id = d.id} = ChunksOf(d.id)]_vars

\* C18 witness: a pass over the tree without the note has ended, and the
\* chunks of the note are still among the rows a search joins.
NoRemovalByIndexingReached ==
    \E q \in Tasks : \E n \in Range(Names) :
        /\ pc[q] = "close" /\ q \in clean
        /\ tree[n] = Absent
        /\ \E j \in Joined(source_documents, document_chunks) : j.sd.file_path = <<n>>

\* C19: when no pass is running, no document holds two chunks with the same
\* text and metadata.
NoDuplicateChunks ==
    (\A q \in Tasks : ~Running(q)) =>
        \A d \in source_documents : Cardinality(ChunksOf(d.id)) = Cardinality(RowsOf(d.id))
====
